---- MODULE Spec2Model ----
(***************************************************************************)
(* SPECTRA: the plan validator (brain/ai_engine.py) and the execution      *)
(* orchestrator (core/orchestrator.py) as a state machine.                 *)
(*                                                                         *)
(* One run of SpectraOrchestrator.run is followed step by step (pc).  The  *)
(* collaborators (scanner, advisor backend, execution backend, console,    *)
(* log classifier) are the environment: every call draws its outcome,      *)
(* errors included, from a small set.  The backend mutates the session     *)
(* registry and a signal sets the cancellation flag between any two steps. *)
(* Python values are written as strings ("True", "False", "None").         *)
(***************************************************************************)
EXTENDS Integers, Sequences, FiniteSets, TLC

\* ------------------------------------------------------------------ bounds
MaxSessions == 2     \* session identifiers the backend may open
MaxTextLen == 3      \* length of an advisor response, in characters

\* ------------------------------------------------------- program constants
PollTimeout == 60    \* SpectraOrchestrator.__init__, poll_timeout
TickDelay == 5       \* time.sleep(5) at the end of a poll tick
Retries == 2         \* LLMAdapter.__init__, retries

\* ------------------------------------------------------- failure taxonomy
FailureReason ==
  { "TARGET_PATCHED_OR_NOT_VULNERABLE", "PAYLOAD_OR_ARCH_MISMATCH",
    "CONNECTION_REFUSED_OR_IPS_BLOCK", "MSF_RPC_SYNC_ISSUE", "LLM_FAILURE",
    "VALIDATION_ERROR", "UNDEFINED_INTERNAL_ERROR" }

RunStatus == { "success", "failure", "partial", "interrupted", "unknown" }

EmptyDict == [k \in {} |-> "None"]

\* An exception object.  structured: it is a SpectraException (or subclass).
\* original_type: the class name of the wrapped cause, "None" without one.
SpectraException(message, reason, details, original_type, original_text) ==
  [ structured |-> TRUE, cls |-> "SpectraException", message |-> message,
    reason |-> reason, details |-> details,
    original_type |-> original_type, original_text |-> original_text ]

\* Mutant: the registry error without its own reason code.
MSFRPCException_undefined(message, details, original_type, original_text) ==
  [ SpectraException(message, "UNDEFINED_INTERNAL_ERROR", details,
                     original_type, original_text)
    EXCEPT !.cls = "MSFRPCException" ]

MSFRPCException(message, details, original_type, original_text) ==
  [ SpectraException(message, "MSF_RPC_SYNC_ISSUE", details,
                     original_type, original_text)
    EXCEPT !.cls = "MSFRPCException" ]

\* Mutant: the dispatch error raised without the details it was given.
ExploitExecutionException_bare(message, details, original_type, original_text) ==
  [ SpectraException(message, "PAYLOAD_OR_ARCH_MISMATCH", EmptyDict,
                     original_type, original_text)
    EXCEPT !.cls = "ExploitExecutionException" ]

ExploitExecutionException(message, details, original_type, original_text) ==
  [ SpectraException(message, "PAYLOAD_OR_ARCH_MISMATCH", details,
                     original_type, original_text)
    EXCEPT !.cls = "ExploitExecutionException" ]

\* Any other Exception: no reason attribute, no details.
PyException(cls, message) ==
  [ structured |-> FALSE, cls |-> cls, message |-> message,
    reason |-> "None", details |-> EmptyDict,
    original_type |-> "None", original_text |-> << >> ]

\* SpectraException.__str__ (the default str for the others), as the
\* sequence of pieces the text is concatenated from.
Str(e) ==
  IF e.structured
    THEN << e.reason, ": ", e.message >>
         \o ( IF e.original_type # "None"
                THEN << " (caused by ", e.original_type, ": " >>
                     \o e.original_text \o << ")" >>
                ELSE << >> )
    ELSE << e.message >>

\* SpectraException.to_dict; the traceback text is kept as whether one was
\* captured (__post_init__ captures it exactly when a cause is wrapped).
to_dict(e) ==
  [ message |-> e.message, reason |-> e.reason, details |-> e.details,
    original_type |-> e.original_type,
    traceback |-> IF e.original_type # "None" THEN "captured" ELSE "None" ]

\* What a collaborator of this repository (scanner, exploiter) may raise: a
\* plain Exception, a TypeError, or a structured error of any reason.
CollabErrors ==
  { PyException("Exception", "boom"), PyException("TypeError", "bad call") }
  \cup { SpectraException("collaborator failed", r, EmptyDict, "None", << >>) :
           r \in FailureReason }

\* What a read of the session registry may raise: the registry is read
\* through the RPC library's own client, which raises plain errors.
RegistryErrors == { PyException("Exception", "boom") }

\* What PostExploitUnit.upgrade_shell may raise: the RPC library's plain
\* error, or a structured RPC error.
BackendErrors ==
  { PyException("Exception", "boom"),
    SpectraException("collaborator failed", "MSF_RPC_SYNC_ISSUE", EmptyDict,
                     "None", << >>) }

\* ---------------------------------------------------------- advisor client
\* LLMAdapter.predict: outcomes[i] tells whether the i-th backend call
\* succeeds.  The result: whether text was returned, the number of backend
\* calls made, and the backoff slept, in units of the base delay.
\* error: the class of the exception predict raises, "None" when it returns.
RECURSIVE PredictLoop(_, _, _, _)
PredictLoop(outcomes, attempt, calls, slept) ==
  IF attempt <= Retries
    THEN IF outcomes[calls + 1]
           THEN [ ok |-> TRUE, calls |-> calls + 1, slept |-> slept,
                  error |-> "None" ]
           ELSE PredictLoop(outcomes, attempt + 1, calls + 1,
                            slept + (attempt + 1))
    ELSE [ ok |-> FALSE, calls |-> calls, slept |-> slept,
           error |-> "RuntimeError" ]

predict(client, outcomes) ==
  IF ~client
    THEN [ ok |-> FALSE, calls |-> 0, slept |-> 0, error |-> "RuntimeError" ]
    ELSE PredictLoop(outcomes, 0, 0, 0)

\* ------------------------------------------------------------- RPC client
\* MSFClient._connect_internal: outcomes[i] tells whether the i-th
\* connection attempt succeeds; attempt is the number of attempts made.
\* The result: whether it returned True, the attempts made, the backoff
\* slept in units of connect_backoff, and the class of what it raised.
\* Mutant: the backoff is slept after the last attempt too.
RECURSIVE ConnectLoop_sleeps_last(_, _, _, _)
ConnectLoop_sleeps_last(connect_retries, outcomes, attempt, slept) ==
  IF attempt <= connect_retries
    THEN IF outcomes[attempt + 1]
           THEN [ ok |-> TRUE, attempts |-> attempt + 1, slept |-> slept,
                  error |-> "None" ]
           ELSE ConnectLoop_sleeps_last(connect_retries, outcomes,
                                        attempt + 1, slept + (attempt + 1))
    ELSE [ ok |-> FALSE, attempts |-> attempt, slept |-> slept,
           error |-> "MSFRPCException" ]

RECURSIVE ConnectLoop(_, _, _, _)
ConnectLoop(connect_retries, outcomes, attempt, slept) ==
  IF attempt <= connect_retries
    THEN IF outcomes[attempt + 1]
           THEN [ ok |-> TRUE, attempts |-> attempt + 1, slept |-> slept,
                  error |-> "None" ]
           ELSE IF attempt + 1 <= connect_retries
             THEN ConnectLoop(connect_retries, outcomes, attempt + 1,
                              slept + (attempt + 1))
             ELSE [ ok |-> FALSE, attempts |-> attempt + 1, slept |-> slept,
                    error |-> "MSFRPCException" ]
    ELSE [ ok |-> FALSE, attempts |-> attempt, slept |-> slept,
           error |-> "MSFRPCException" ]

connect_internal(connect_retries, outcomes) ==
  ConnectLoop(connect_retries, outcomes, 0, 0)

\* self.client and self._connected after _connect_internal with result r:
\* a success assigns both; a failed attempt leaves _connected as it was,
\* and leaves self.client too unless MsfRpcClient(...) had returned.
connect_state(m, at_probe, r) ==
  IF r.ok THEN [ client |-> "client", connected |-> TRUE ]
  ELSE IF r.attempts > 0 /\ at_probe
    THEN [ client |-> "client", connected |-> m.connected ]
  ELSE m

\* MSFClient.disconnect: logout and close are called on a client that has
\* them, and what they raise is caught.
disconnect(m, logout, close) ==
  [ value |-> "None", raised |-> "None",
    logout_called |-> m.client # "None" /\ logout # "absent",
    close_called |-> m.client # "None" /\ close # "absent" ]

\* self.client = None; self._connected = False
disconnect_state(m) == [ client |-> "None", connected |-> FALSE ]

\* MSFClient.connect: value is what it returns, raised what it raises.
connect(connect_retries, outcomes) ==
  LET r == connect_internal(connect_retries, outcomes)
  IN  [ value |-> IF r.error # "None" THEN "False"
                  ELSE IF r.ok THEN "True" ELSE "False",
        raised |-> "None", attempts |-> r.attempts, slept |-> r.slept ]

\* MSFClient.connect_or_raise
connect_or_raise(connect_retries, outcomes) ==
  LET r == connect_internal(connect_retries, outcomes)
  IN  [ value |-> "None",
        raised |-> IF r.error # "None" \/ ~r.ok THEN "MSFRPCException"
                   ELSE "None",
        attempts |-> r.attempts, slept |-> r.slept ]

\* ---------------------------------------------------------- plan validator
\* The characters of an advisor response that the scan tells apart:
\* braces, the double quote (q), the backslash (b), anything else (x).
Alphabet == { "{", "}", "q", "b", "x" }

Texts == UNION { [1..n -> Alphabet] : n \in 0..MaxTextLen }

\* text.find('{'), 1-based; 0 when there is none.
RECURSIVE FindBrace(_, _)
FindBrace(text, i) ==
  IF i > Len(text) THEN 0
  ELSE IF text[i] = "{" THEN i
  ELSE FindBrace(text, i + 1)

\* Mutant: the braces inside string literals are counted as well.
RECURSIVE ScanFrom_strings_ignored(_, _, _, _, _, _)
ScanFrom_strings_ignored(text, start, i, depth, in_string, escape) ==
  IF i > Len(text) THEN [ found |-> FALSE, text |-> << >> ]
  ELSE
    LET ch == text[i]
    IN  IF ch = "{"
          THEN ScanFrom_strings_ignored(text, start, i + 1, depth + 1,
                                        FALSE, FALSE)
        ELSE IF ch = "}"
          THEN IF depth - 1 = 0
                 THEN [ found |-> TRUE, text |-> SubSeq(text, start, i) ]
                 ELSE ScanFrom_strings_ignored(text, start, i + 1, depth - 1,
                                               FALSE, FALSE)
        ELSE ScanFrom_strings_ignored(text, start, i + 1, depth, FALSE, FALSE)

\* The for loop of extract_first_json from position i on.
RECURSIVE ScanFrom(_, _, _, _, _, _)
ScanFrom(text, start, i, depth, in_string, escape) ==
  IF i > Len(text) THEN [ found |-> FALSE, text |-> << >> ]
  ELSE
    LET ch == text[i]
        ins == IF ch = "q" /\ ~escape THEN ~in_string ELSE in_string
    IN  IF ins /\ ch = "b" /\ ~escape
          THEN ScanFrom(text, start, i + 1, depth, ins, TRUE)
          ELSE IF ~ins /\ ch = "{"
                 THEN ScanFrom(text, start, i + 1, depth + 1, ins, FALSE)
               ELSE IF ~ins /\ ch = "}"
                 THEN IF depth - 1 = 0
                        THEN [ found |-> TRUE,
                               text |-> SubSeq(text, start, i) ]
                        ELSE ScanFrom(text, start, i + 1, depth - 1, ins, FALSE)
               ELSE ScanFrom(text, start, i + 1, depth, ins, FALSE)

extract_first_json(text) ==
  IF text = << >> THEN [ found |-> FALSE, text |-> << >> ]
  ELSE LET start == FindBrace(text, 1)
       IN  IF start = 0 THEN [ found |-> FALSE, text |-> << >> ]
           ELSE ScanFrom(text, start, start, 0, FALSE, FALSE)

\* A decoded JSON object, by the value of each schema key.  ABSENT: the key
\* is missing.  BAD: a non-empty list, which no field type accepts and which
\* is truthy.  extra: the object holds a key outside the schema.
ABSENT == "<absent>"
BAD == "<list>"

Objects ==
  [ module : { ABSENT, "m", BAD },
    payload : { ABSENT, "p" },
    options : { ABSENT, "{}", BAD },
    vector : { ABSENT, "system", "web", "ftp" },
    rationale : { ABSENT, "unsafe target" },
    manual_review : { ABSENT, "true", "false", BAD },
    confidence : { ABSENT },
    extra : BOOLEAN ]

EmptyObject ==
  [ module |-> ABSENT, payload |-> ABSENT, options |-> ABSENT,
    vector |-> ABSENT, rationale |-> ABSENT, manual_review |-> ABSENT,
    confidence |-> ABSENT, extra |-> FALSE ]

\* json.loads on the candidate: "{}" is the empty object; any other
\* candidate stands for texts that decode to some object or do not decode.
DecodeOutcomes(jtext) ==
  IF jtext = << "{", "}" >>
    THEN { [ ok |-> TRUE, data |-> EmptyObject ] }
    ELSE [ ok : { FALSE }, data : { EmptyObject } ]
         \cup [ ok : { TRUE }, data : Objects ]

\* What json.loads raises besides JSONDecodeError: RecursionError for a
\* text nested deeper than the interpreter's recursion limit, ValueError for
\* an integer literal longer than the interpreter's digit limit.
DecodeErrors ==
  { PyException("RecursionError", "maximum recursion depth exceeded"),
    PyException("ValueError", "Exceeds the limit for integer string conversion") }

\* The Python value of a JSON value.
PyVal(v) ==
  CASE v = "true" -> "True"
    [] v = "false" -> "False"
    [] v = "null" -> "None"
    [] OTHER -> v

\* dict.get(key) is truthy.
Truthy(v) == v \notin { ABSENT, "false", "null", "", "{}", "None", "False" }

ManualReview(rationale) ==
  [ manual_review |-> "True", rationale |-> rationale ]

\* Mutant: the schema without extra = "forbid".
SchemaErrors_extra_ignored(data) ==
  { f \in { "module", "payload", "vector" } : data[f] \in { ABSENT, BAD, "null" } }
  \cup { f \in { "options", "rationale", "manual_review", "confidence" } :
           data[f] = BAD }

\* StrategySchema(**data): the fields pydantic rejects.
SchemaErrors(data) ==
  { f \in { "module", "payload", "vector" } : data[f] \in { ABSENT, BAD, "null" } }
  \cup { f \in { "options", "rationale", "manual_review", "confidence" } :
           data[f] = BAD }
  \cup ( IF data.extra THEN { "extra" } ELSE { } )

\* strat.dict(): every schema key, defaults filled in.
StrategyDict(data) ==
  [ module |-> data.module,
    payload |-> data.payload,
    options |-> IF data.options = ABSENT THEN "{}" ELSE data.options,
    vector |-> data.vector,
    rationale |-> IF data.rationale = ABSENT THEN "None"
                  ELSE PyVal(data.rationale),
    manual_review |-> IF data.manual_review = ABSENT THEN "False"
                      ELSE PyVal(data.manual_review),
    confidence |-> IF data.confidence = ABSENT THEN "None"
                   ELSE PyVal(data.confidence) ]

InvalidVectorText(v) ==
  CASE v = "ftp" -> "Invalid vector: ftp"
    [] v = "" -> "Invalid vector: "
    [] OTHER -> "Invalid vector: ?"

\* Mutant: the schema is applied before the manual-review pass-through.
Validate_schema_first(data, require_manual_approval) ==
  IF SchemaErrors(data) # { }
    THEN ManualReview("ValidationError")
  ELSE IF Truthy(data.manual_review)
    THEN ManualReview( IF data.rationale = ABSENT
                         THEN "LLM signaled manual review"
                         ELSE PyVal(data.rationale) )
  ELSE LET obj == StrategyDict(data)
       IN  IF obj.vector \notin { "system", "web" }
             THEN ManualReview(InvalidVectorText(obj.vector))
           ELSE IF require_manual_approval
             THEN [ obj EXCEPT !.manual_review = "True" ]
           ELSE obj

\* Mutant: the vector is not checked against the two allowed values.
Validate_vector_unchecked(data, require_manual_approval) ==
  IF Truthy(data.manual_review)
    THEN ManualReview( IF data.rationale = ABSENT
                         THEN "LLM signaled manual review"
                         ELSE PyVal(data.rationale) )
  ELSE IF SchemaErrors(data) # { }
    THEN ManualReview("ValidationError")
  ELSE IF require_manual_approval
    THEN [ StrategyDict(data) EXCEPT !.manual_review = "True" ]
  ELSE StrategyDict(data)

\* Mutant: require_manual_approval is not applied.
Validate_approval_ignored(data, require_manual_approval) ==
  IF Truthy(data.manual_review)
    THEN ManualReview( IF data.rationale = ABSENT
                         THEN "LLM signaled manual review"
                         ELSE PyVal(data.rationale) )
  ELSE IF SchemaErrors(data) # { }
    THEN ManualReview("ValidationError")
  ELSE LET obj == StrategyDict(data)
       IN  IF obj.vector \notin { "system", "web" }
             THEN ManualReview(InvalidVectorText(obj.vector))
           ELSE obj

\* get_strategy from the decoded object on (the manual-review pass-through,
\* the schema, the vector enum, require_manual_approval).
Validate(data, require_manual_approval) ==
  IF Truthy(data.manual_review)
    THEN ManualReview( IF data.rationale = ABSENT
                         THEN "LLM signaled manual review"
                         ELSE PyVal(data.rationale) )
  ELSE IF SchemaErrors(data) # { }
    THEN ManualReview("ValidationError")
  ELSE LET obj == StrategyDict(data)
       IN  IF obj.vector \notin { "system", "web" }
             THEN ManualReview(InvalidVectorText(obj.vector))
           ELSE IF require_manual_approval
             THEN [ obj EXCEPT !.manual_review = "True" ]
           ELSE obj

\* The dicts get_strategy returns that are plans: every schema key.
IsPlan(p) ==
  DOMAIN p = { "module", "payload", "options", "vector", "rationale",
               "manual_review", "confidence" }

\* ----------------------------------------------------------- orchestrator
VARIABLES
  pc,            \* the position of run
  dry_run,       \* self.dry_run
  shutdown,      \* the shared cancellation flag (shutdown_event)
  registry,      \* the backend's session registry: identifier -> type
  raw,           \* get_strategy: the advisor's response
  jtext,         \* get_strategy: the extracted candidate
  data,          \* get_strategy: what json.loads made of the candidate
  llm_ok,        \* whether self.llm.predict returned text ("None": not called)
  plan,          \* run: what get_strategy returned
  pre_sessions,  \* run: the snapshot taken before dispatch
  console,       \* run: what exploiter.execute returned
  current,       \* run: the snapshot of the tick
  s_id,          \* run: the new session selected in the tick
  s_type,        \* run: session_info.get("type")
  elapsed,       \* time.time() - start, in seconds
  result,        \* the mapping run returned
  returns,       \* how many results run has returned
  escaped,       \* an exception left run
  exc,           \* the class of the exception raised inside run, if any
  upgraded,      \* upgrade_shell: "None" (not called), "ok" or "raised"
  calls,         \* external calls made so far, per collaborator
  execs,         \* the invocations of exploiter.execute, in order
  ticks,         \* poll ticks that ended in the sleep
  flagAge,       \* cancellation checks evaluated since the flag was set
  require_manual_approval,  \* get_strategy: its second argument
  call,          \* a call of one of the two clients, outside of run
  prepared,      \* run: what lines 85-89 did, for each value of auto_confirm
  msf            \* an MSFClient: its client reference and _connected

vars ==
  << pc, dry_run, shutdown, registry, raw, jtext, data, llm_ok, plan,
     pre_sessions, console, current, s_id, s_type, elapsed, result, returns,
     escaped, exc, upgraded, calls, execs, ticks, flagAge,
     require_manual_approval, call, prepared, msf >>

SessIds == 1..MaxSessions
NoSession == "none"
SessionTypes == { "shell", "meterpreter" }

NoText == [ ok |-> FALSE, text |-> << >> ]
NoData == [ ok |-> FALSE, data |-> EmptyObject ]
NoPlan == EmptyDict
NoResult == [ status |-> "none", reason |-> "none", details |-> EmptyDict ]
NoId == 0
NoCall == [ fn |-> "none" ]

\* The state of an MSFClient after __init__.
NewClient == [ client |-> "None", connected |-> FALSE ]

\* MSFClient.is_connected
is_connected(m) == m.connected /\ m.client # "None"

\* The logged keys of the plan: {k: plan.get(k) for k in (...)}
PlanKeys(p) ==
  [ module |-> p.module, payload |-> p.payload, vector |-> p.vector ]

\* Lines 85-89 of run in an orchestrator created with the given
\* auto_confirm: the plans it logged and where the run goes on.
\* Mutant: without auto_confirm and dry_run the run waits for a confirmation.
PlanPrepared_asks(auto_confirm, dr, p) ==
  [ logged |-> IF ~auto_confirm /\ ~dr THEN { PlanKeys(p) } ELSE { },
    next   |-> IF ~auto_confirm /\ ~dr THEN "confirm" ELSE "check_dispatch" ]

PlanPrepared(auto_confirm, dr, p) ==
  [ logged |-> IF ~auto_confirm /\ ~dr THEN { PlanKeys(p) } ELSE { },
    next   |-> "check_dispatch" ]

\* Before line 85 is reached.
NotPrepared == [ ac \in BOOLEAN |-> [ logged |-> { }, next |-> "none" ] ]

LogTexts ==
  { "[*] Started reverse TCP handler",
    "[*] Exploit completed, but no session was created.",
    "[-] EXPLOIT COMPLETED" }

\* "Exploit completed" in log_data or "exploit completed" in log_data.lower()
HasMarker(log_data) ==
  log_data \in { "[*] Exploit completed, but no session was created.",
                 "[-] EXPLOIT COMPLETED" }

Classifications == { "TARGET_PATCHED_OR_NOT_VULNERABLE" }

Min(a, b) == IF a < b THEN a ELSE b

\* The ticks that fit before the deadline: ceil(poll_timeout / tick delay).
MaxTicks == (PollTimeout + TickDelay - 1) \div TickDelay

\* set(sessions.list.keys())
Keys(reg) == { s \in SessIds : reg[s] # NoSession }

Interrupted ==
  [ status |-> "interrupted", reason |-> "shutdown_requested",
    details |-> EmptyDict ]

\* Mutant: run without its last except clause.
outer_handler_structured_only(e) ==
  [ caught |-> e.structured,
    result |-> [ status |-> "failure", reason |-> e.reason,
                 details |-> to_dict(e) ] ]

\* Mutant: the structured clause reports its fallback reason.
outer_handler_reason_exception(e) ==
  IF e.structured
    THEN [ caught |-> TRUE,
           result |-> [ status |-> "failure", reason |-> "exception",
                        details |-> to_dict(e) ] ]
    ELSE [ caught |-> TRUE,
           result |-> [ status |-> "failure",
                        reason |-> "UNDEFINED_INTERNAL_ERROR",
                        details |-> [ error |-> Str(e) ] ] ]

\* The two except clauses that close run: what the caller gets for an
\* exception raised inside the try block.
outer_handler(e) ==
  IF e.structured
    THEN [ caught |-> TRUE,
           result |-> [ status |-> "failure", reason |-> e.reason,
                        details |-> to_dict(e) ] ]
    ELSE [ caught |-> TRUE,
           result |-> [ status |-> "failure",
                        reason |-> "UNDEFINED_INTERNAL_ERROR",
                        details |-> [ error |-> Str(e) ] ] ]

\* Mutant: the flag is never seen.
is_shutdown_blind == FALSE

\* self._is_shutdown()
is_shutdown == shutdown

\* A return statement of run.
Return(res) ==
  /\ pc' = "done"
  /\ result' = res
  /\ returns' = returns + 1
  /\ UNCHANGED << escaped, exc >>

\* An exception raised inside the try block of run.
Raise(e) ==
  /\ pc' = "done"
  /\ exc' = e.cls
  /\ LET h == outer_handler(e)
     IN  IF h.caught
           THEN /\ result' = h.result
                /\ returns' = returns + 1
                /\ UNCHANGED escaped
           ELSE /\ escaped' = TRUE
                /\ UNCHANGED << result, returns >>

\* The step goes on to the next position of run.
Goto(next) ==
  /\ pc' = next
  /\ UNCHANGED << result, returns, escaped, exc >>

\* A cancellation check was evaluated.
Checked == flagAge' = IF shutdown THEN flagAge + 1 ELSE flagAge

Called(c) == calls' = [ calls EXCEPT ![c] = @ + 1 ]

Init ==
  /\ pc = "recon"
  /\ dry_run \in BOOLEAN
  /\ shutdown = FALSE
  /\ registry \in [ SessIds -> SessionTypes \cup { NoSession } ]
  /\ raw = NoText
  /\ jtext = NoText
  /\ data = NoData
  /\ llm_ok = "None"
  /\ plan = NoPlan
  /\ pre_sessions = { }
  /\ console = "None"
  /\ current = { }
  /\ s_id = NoId
  /\ s_type = "None"
  /\ elapsed = 0
  /\ result = NoResult
  /\ returns = 0
  /\ escaped = FALSE
  /\ exc = "None"
  /\ upgraded = "None"
  /\ calls = [ c \in { "scan", "predict", "registry", "upgrade", "console",
                       "classify" } |-> 0 ]
  /\ execs = << >>
  /\ ticks = 0
  /\ flagAge = -1
  /\ require_manual_approval = FALSE
  /\ call = NoCall
  /\ prepared = NotPrepared
  /\ msf = NewClient

\* recon = self.scanner.scan_services()
Scan ==
  /\ pc = "recon"
  /\ Called("scan")
  /\ \/ Goto("check_recon")
     \/ \E e \in CollabErrors : Raise(e)
  /\ UNCHANGED << msf, prepared, call, require_manual_approval,
                  data, llm_ok, upgraded, dry_run, shutdown, registry, raw,
                  jtext, plan, pre_sessions, console, current, s_id, s_type,
                  elapsed, execs, ticks, flagAge >>

\* if self._is_shutdown(): return interrupted   (after recon)
CheckAfterRecon ==
  /\ pc = "check_recon"
  /\ Checked
  /\ IF is_shutdown THEN Return(Interrupted) ELSE Goto("predict")
  /\ UNCHANGED << msf, prepared, call, require_manual_approval,
                  data, llm_ok, upgraded, dry_run, shutdown, registry, raw,
                  jtext, plan, pre_sessions, console, current, s_id, s_type,
                  elapsed, calls, execs, ticks >>

\* Mutant: get_strategy returns nothing when the advisor call fails.
PredictFailed_no_plan == NoPlan

\* What get_strategy returns when self.llm.predict raises.
PredictFailed == ManualReview("LLM unavailable or prediction error")

\* get_strategy: raw = self.llm.predict(prompt), and its except clause
Advise ==
  /\ pc = "predict"
  /\ Called("predict")
  /\ \E client \in BOOLEAN, outcomes \in [ 1..(Retries + 1) -> BOOLEAN ] :
       IF predict(client, outcomes).ok
         THEN /\ raw' \in [ ok : { TRUE }, text : Texts ]
              /\ llm_ok' = "True"
              /\ pc' = "extract"
              /\ UNCHANGED plan
         ELSE /\ plan' = PredictFailed
              /\ llm_ok' = "False"
              /\ pc' = "branch"
              /\ UNCHANGED raw
  /\ UNCHANGED << msf, prepared, call, require_manual_approval,
                  data, upgraded, dry_run, shutdown, registry, jtext,
                  pre_sessions, console, current, s_id, s_type, elapsed,
                  result, returns, escaped, exc, execs, ticks, flagAge >>

\* get_strategy: jtext = extract_first_json(raw)
Extract ==
  /\ pc = "extract"
  /\ LET j == extract_first_json(raw.text)
     IN  IF j.found
           THEN /\ jtext' = [ ok |-> TRUE, text |-> j.text ]
                /\ pc' = "decode"
                /\ UNCHANGED plan
           ELSE /\ plan' = ManualReview("LLM did not return JSON")
                /\ pc' = "branch"
                /\ UNCHANGED jtext
  /\ raw' = NoText
  /\ UNCHANGED << msf, prepared, call, require_manual_approval,
                  data, llm_ok, upgraded, dry_run, shutdown, registry,
                  pre_sessions, console, current, s_id, s_type, elapsed,
                  result, returns, escaped, exc, calls, execs, ticks, flagAge >>

\* get_strategy: data = json.loads(jtext) and the validation of data
Decode ==
  /\ pc = "decode"
  /\ \/ /\ data' \in DecodeOutcomes(jtext.text)
        /\ plan' = IF data'.ok
                     THEN Validate(data'.data, require_manual_approval)
                     ELSE ManualReview("Invalid JSON from LLM")
        /\ Goto("branch")
     \/ /\ jtext.text # << "{", "}" >>
        /\ \E e \in DecodeErrors : Raise(e)
        /\ UNCHANGED << data, plan >>
  /\ jtext' = NoText
  /\ UNCHANGED << msf, prepared, call, require_manual_approval,
                  llm_ok, upgraded, dry_run, shutdown, registry, raw,
                  pre_sessions, console, current, s_id, s_type, elapsed,
                  calls, execs, ticks, flagAge >>

NoPlanResult ==
  [ status |-> "failure", reason |-> "no_plan", details |-> EmptyDict ]

\* Mutant: the manual-review result under a status of its own.
ManualReviewResult_own_status(p) ==
  [ status |-> "manual_review", reason |-> "manual_review_required",
    details |-> [ rationale |-> p.rationale ] ]

ManualReviewResult(p) ==
  [ status |-> "partial", reason |-> "manual_review_required",
    details |-> [ rationale |-> p.rationale ] ]

\* if not self.auto_confirm and not self.dry_run: logger.info(...)
\* The run is followed for both values of auto_confirm at once, as long as
\* the two runs go on at the same place.
Confirmation ==
  /\ prepared' = [ ac \in BOOLEAN |-> PlanPrepared(ac, dry_run, plan) ]
  /\ Goto(IF prepared'[TRUE].next = prepared'[FALSE].next
            THEN prepared'[FALSE].next
            ELSE "diverged")

\* Mutant: run without the manual_review branch.
Branch_manual_review_ignored ==
  /\ pc = "branch"
  /\ IF DOMAIN plan = { }
       THEN Return(NoPlanResult)
       ELSE Goto("check_dispatch")
  /\ data' = NoData
  /\ UNCHANGED << msf, prepared, call, require_manual_approval,
                  llm_ok, upgraded, dry_run, shutdown, registry, raw, jtext,
                  plan, pre_sessions, console, current, s_id, s_type, elapsed,
                  calls, execs, ticks, flagAge >>

\* run: if not plan ... / if plan.get("manual_review") ...
\* (get_strategy has returned: its local data is gone.)
Branch ==
  /\ pc = "branch"
  /\ IF DOMAIN plan = { }
       THEN Return(NoPlanResult) /\ UNCHANGED prepared
     ELSE IF Truthy(plan.manual_review)
       THEN Return(ManualReviewResult(plan)) /\ UNCHANGED prepared
     ELSE Confirmation
  /\ data' = NoData
  /\ UNCHANGED << msf, call, require_manual_approval,
                  llm_ok, upgraded, dry_run, shutdown, registry, raw, jtext,
                  plan, pre_sessions, console, current, s_id, s_type, elapsed,
                  calls, execs, ticks, flagAge >>

\* if self._is_shutdown(): return interrupted   (before exploit execution)
CheckBeforeDispatch ==
  /\ pc = "check_dispatch"
  /\ Checked
  /\ IF is_shutdown THEN Return(Interrupted) ELSE Goto("snapshot_pre")
  /\ UNCHANGED << msf, prepared, call, require_manual_approval,
                  data, llm_ok, upgraded, dry_run, shutdown, registry, raw,
                  jtext, plan, pre_sessions, console, current, s_id, s_type,
                  elapsed, calls, execs, ticks >>

\* pre_sessions = set(self.msf.client.sessions.list.keys()), and its
\* except clause
SnapshotPre ==
  /\ pc = "snapshot_pre"
  /\ Called("registry")
  /\ \/ /\ pre_sessions' = Keys(registry)
        /\ Goto("dispatch")
     \/ /\ \E e \in RegistryErrors :
             Raise(MSFRPCException("Failed to read MSF sessions",
                                   [ error |-> Str(e) ], e.cls, Str(e)))
        /\ UNCHANGED pre_sessions
  /\ UNCHANGED << msf, prepared, call, require_manual_approval,
                  data, llm_ok, upgraded, dry_run, shutdown, registry, raw,
                  jtext, plan, console, current, s_id, s_type, elapsed, execs,
                  ticks, flagAge >>

\* What exploiter.execute may return: a console handle, or nothing.
Consoles == { "console", "None" }

\* One invocation of exploiter.execute, as recorded in execs.
ExecCall(p, flag) == [ plan |-> p, dry_run |-> flag ]

\* console = self.exploiter.execute(plan, self.target, dry_run=self.dry_run),
\* the retry without dry_run on TypeError, and the outer except clause;
\* then start = time.time()
Dispatch ==
  /\ pc = "dispatch"
  /\ LET with_flag == ExecCall(plan, IF dry_run THEN "True" ELSE "False")
         without == ExecCall(plan, "omitted")
         failed(e) ==
           Raise(ExploitExecutionException("Exploit execution failed",
                                           [ plan |-> plan ], e.cls, Str(e)))
     IN  \/ /\ execs' = Append(execs, with_flag)
            /\ \E c \in Consoles : console' = c
            /\ Goto("tick")
         \/ /\ execs' = Append(execs, with_flag)
            /\ \E e \in { x \in CollabErrors : x.cls # "TypeError" } : failed(e)
            /\ UNCHANGED console
         \/ /\ execs' = execs \o << with_flag, without >>
            /\ \E c \in Consoles : console' = c
            /\ Goto("tick")
         \/ /\ execs' = execs \o << with_flag, without >>
            /\ \E e \in CollabErrors : failed(e)
            /\ UNCHANGED console
  /\ elapsed' = 0
  /\ UNCHANGED << msf, prepared, call, require_manual_approval,
                  data, llm_ok, upgraded, dry_run, shutdown, registry, raw,
                  jtext, plan, pre_sessions, current, s_id, s_type, calls,
                  ticks, flagAge >>

TimedOut ==
  [ status |-> "failure", reason |-> "timeout_no_session",
    details |-> EmptyDict ]

\* Mutant: the tick reads the registry before it checks the flag.
Tick_reads_first ==
  /\ pc = "tick"
  /\ IF elapsed < PollTimeout
       THEN /\ Checked
            /\ Called("registry")
            /\ IF is_shutdown THEN Return(Interrupted) ELSE Goto("snapshot")
       ELSE /\ Return(TimedOut)
            /\ UNCHANGED << flagAge, calls >>
  /\ UNCHANGED << msf, prepared, call, require_manual_approval,
                  data, llm_ok, upgraded, dry_run, shutdown, registry, raw,
                  jtext, plan, pre_sessions, console, current, s_id, s_type,
                  elapsed, execs, ticks >>

\* while time.time() - start < self.poll_timeout: if self._is_shutdown(): ...
\* and the return after the loop
Tick ==
  /\ pc = "tick"
  /\ IF elapsed < PollTimeout
       THEN /\ Checked
            /\ IF is_shutdown THEN Return(Interrupted) ELSE Goto("snapshot")
       ELSE /\ Return(TimedOut)
            /\ UNCHANGED flagAge
  /\ UNCHANGED << msf, prepared, call, require_manual_approval,
                  data, llm_ok, upgraded, dry_run, shutdown, registry, raw,
                  jtext, plan, pre_sessions, console, current, s_id, s_type,
                  elapsed, calls, execs, ticks >>

\* Mutant: every session of the tick's snapshot counts as new.
new_sessions_all(cur, pre) == cur

\* new = current - pre_sessions
new_sessions(cur, pre) == cur \ pre

\* Mutant: the tick reads the console before it acts on a new session.
Snapshot_log_first ==
  /\ pc = "snapshot"
  /\ Called("registry")
  /\ \/ LET cur == Keys(registry)
            new == new_sessions(cur, pre_sessions)
        IN  IF new # { }
              THEN /\ current' = cur
                   /\ \E s \in new : s_id' = s
                   /\ Goto("console")
              ELSE /\ current' = { }
                   /\ UNCHANGED s_id
                   /\ Goto("console")
     \/ /\ \E e \in RegistryErrors :
             Raise(MSFRPCException("MSF session read failed during polling",
                                   EmptyDict, e.cls, Str(e)))
        /\ UNCHANGED << current, s_id >>
  /\ UNCHANGED << msf, prepared, call, require_manual_approval,
                  data, llm_ok, upgraded, dry_run, shutdown, registry, raw,
                  jtext, plan, pre_sessions, console, s_type, elapsed, execs,
                  ticks, flagAge >>

\* current = set(self.msf.client.sessions.list.keys()), its except clause,
\* new = current - pre_sessions and s_id = list(new)[0]
Snapshot ==
  /\ pc = "snapshot"
  /\ Called("registry")
  /\ \/ LET cur == Keys(registry)
            new == new_sessions(cur, pre_sessions)
        IN  IF new # { }
              THEN /\ current' = cur
                   /\ \E s \in new : s_id' = s
                   /\ Goto("lookup")
              ELSE /\ current' = { }
                   /\ UNCHANGED s_id
                   /\ Goto("console")
     \/ /\ \E e \in RegistryErrors :
             Raise(MSFRPCException("MSF session read failed during polling",
                                   EmptyDict, e.cls, Str(e)))
        /\ UNCHANGED << current, s_id >>
  /\ UNCHANGED << msf, prepared, call, require_manual_approval,
                  data, llm_ok, upgraded, dry_run, shutdown, registry, raw,
                  jtext, plan, pre_sessions, console, s_type, elapsed, execs,
                  ticks, flagAge >>

\* The three success returns of a tick that found a new session.
SessionOpened(s, type) ==
  [ status |-> "success", reason |-> "session_opened",
    details |-> [ session_id |-> s, type |-> type ] ]

\* Mutant: an upgraded shell is reported like any other session.
SessionUpgraded_plain(s) ==
  [ status |-> "success", reason |-> "session_opened",
    details |-> [ session_id |-> s, type |-> "shell" ] ]

SessionUpgraded(s) ==
  [ status |-> "success", reason |-> "session_opened_and_upgraded",
    details |-> [ session_id |-> s, type |-> "upgraded_shell" ] ]

\* Mutant: a failed upgrade demotes the run to failure.
UpgradeFailed_as_failure(s, e) ==
  [ status |-> "failure", reason |-> "session_opened_upgrade_failed",
    details |-> [ session_id |-> s, upgrade_error |-> Str(e) ] ]

UpgradeFailed(s, e) ==
  [ status |-> "success", reason |-> "session_opened_upgrade_failed",
    details |-> [ session_id |-> s, upgrade_error |-> Str(e) ] ]

\* session_info = self.msf.client.sessions.list[s_id], the branch on
\* session_info.get("type"), self.post.upgrade_shell(s_id, self.lhost) with
\* its except clause, and the success returns
Lookup ==
  /\ pc = "lookup"
  /\ \/ /\ registry[s_id] \notin { NoSession, "shell" }
        /\ s_type' = registry[s_id]
        /\ Called("registry")
        /\ Return(SessionOpened(s_id, registry[s_id]))
        /\ UNCHANGED upgraded
     \/ /\ registry[s_id] = "shell"
        /\ s_type' = registry[s_id]
        /\ calls' = [ calls EXCEPT !["registry"] = @ + 1,
                                   !["upgrade"] = @ + 1 ]
        /\ \/ /\ upgraded' = "ok"
              /\ Return(SessionUpgraded(s_id))
           \/ /\ upgraded' = "raised"
              /\ \E e \in BackendErrors : Return(UpgradeFailed(s_id, e))
     \/ /\ registry[s_id] = NoSession
        /\ Called("registry")
        /\ Raise(PyException("KeyError", ToString(s_id)))
        /\ UNCHANGED << s_type, upgraded >>
     \/ /\ Called("registry")
        /\ \E e \in RegistryErrors : Raise(e)
        /\ UNCHANGED << s_type, upgraded >>
  /\ UNCHANGED << msf, prepared, call, require_manual_approval,
                  data, llm_ok, dry_run, shutdown, registry, raw, jtext, plan,
                  pre_sessions, console, current, s_id, elapsed, execs, ticks,
                  flagAge >>

\* Mutant: the clock the loop condition reads does not advance.
Sleep_clock_stalled ==
  /\ elapsed' = elapsed
  /\ ticks' = ticks + 1
  /\ Goto("tick")

\* time.sleep(5): the tick ends.  It took the delay, or (one of its calls
\* blocking) so long that the deadline has passed.
Sleep ==
  /\ \E took \in { TickDelay, PollTimeout } :
       elapsed' = Min(elapsed + took, PollTimeout)
  /\ ticks' = ticks + 1
  /\ Goto("tick")

\* Mutant: an error of the console read is raised into run.
ReadConsole_read_error_fatal ==
  /\ pc = "console"
  /\ IF console # "None"
       THEN \/ /\ calls' = [ calls EXCEPT !["console"] = @ + 1 ]
               /\ { log_data \in LogTexts : ~HasMarker(log_data) } # { }
               /\ Sleep
            \/ /\ calls' = [ calls EXCEPT !["console"] = @ + 1 ]
               /\ \E e \in CollabErrors : Raise(e)
               /\ UNCHANGED << elapsed, ticks >>
            \/ /\ \E log_data \in LogTexts :
                    /\ HasMarker(log_data)
                    /\ \E classification \in
                            Classifications \cup { "unknown_failure" } :
                         Return([ status |-> "failure",
                                  reason |-> "exploit_failed",
                                  details |->
                                    [ classification |-> classification,
                                      log |-> log_data ] ])
               /\ calls' = [ calls EXCEPT !["console"] = @ + 1,
                                          !["classify"] = @ + 1 ]
               /\ UNCHANGED << elapsed, ticks >>
       ELSE /\ Sleep
            /\ UNCHANGED calls
  /\ UNCHANGED << msf, prepared, call, require_manual_approval,
                  data, llm_ok, upgraded, dry_run, shutdown, registry, raw,
                  jtext, plan, pre_sessions, console, current, s_id, s_type,
                  execs, flagAge >>

\* The console read of a tick without a new session, the classification of
\* a terminal marker, and the sleep.
ReadConsole ==
  /\ pc = "console"
  /\ IF console # "None"
       THEN \/ /\ calls' = [ calls EXCEPT !["console"] = @ + 1 ]
               /\ \/ { log_data \in LogTexts : ~HasMarker(log_data) } # { }
                  \/ CollabErrors # { }
               /\ Sleep
            \/ /\ \E log_data \in LogTexts :
                    /\ HasMarker(log_data)
                    /\ \E classification \in
                            Classifications \cup { "unknown_failure" } :
                         Return([ status |-> "failure",
                                  reason |-> "exploit_failed",
                                  details |->
                                    [ classification |-> classification,
                                      log |-> log_data ] ])
               /\ calls' = [ calls EXCEPT !["console"] = @ + 1,
                                          !["classify"] = @ + 1 ]
               /\ UNCHANGED << elapsed, ticks >>
       ELSE /\ Sleep
            /\ UNCHANGED calls
  /\ UNCHANGED << msf, prepared, call, require_manual_approval,
                  data, llm_ok, upgraded, dry_run, shutdown, registry, raw,
                  jtext, plan, pre_sessions, console, current, s_id, s_type,
                  execs, flagAge >>

\* ------------------------------------------------------------ environment
\* main.handle_signal: shutdown_event.set()
SetShutdown ==
  /\ pc # "done"
  /\ ~shutdown
  /\ shutdown' = TRUE
  /\ flagAge' = 0
  /\ UNCHANGED << msf, prepared, call, require_manual_approval,
                  data, llm_ok, upgraded, pc, dry_run, registry, raw, jtext,
                  plan, pre_sessions, console, current, s_id, s_type, elapsed,
                  result, returns, escaped, exc, calls, execs, ticks >>

\* The backend opens a session.
BackendOpen ==
  /\ pc # "done"
  /\ \E s \in SessIds, t \in SessionTypes :
       /\ registry[s] = NoSession
       /\ registry' = [ registry EXCEPT ![s] = t ]
  /\ UNCHANGED << msf, prepared, call, require_manual_approval,
                  data, llm_ok, upgraded, pc, dry_run, shutdown, raw, jtext,
                  plan, pre_sessions, console, current, s_id, s_type, elapsed,
                  result, returns, escaped, exc, calls, execs, ticks, flagAge >>

\* The backend closes a session.
BackendClose ==
  /\ pc # "done"
  /\ \E s \in SessIds :
       /\ registry[s] # NoSession
       /\ registry' = [ registry EXCEPT ![s] = NoSession ]
  /\ UNCHANGED << msf, prepared, call, require_manual_approval,
                  data, llm_ok, upgraded, pc, dry_run, shutdown, raw, jtext,
                  plan, pre_sessions, console, current, s_id, s_type, elapsed,
                  result, returns, escaped, exc, calls, execs, ticks, flagAge >>

\* The next step of run.
RunStep ==
  \/ Scan
  \/ CheckAfterRecon
  \/ Advise
  \/ Extract
  \/ Decode
  \/ Branch
  \/ CheckBeforeDispatch
  \/ SnapshotPre
  \/ Dispatch
  \/ Tick
  \/ Snapshot
  \/ Lookup
  \/ ReadConsole

Next ==
  \/ RunStep
  \/ SetShutdown
  \/ BackendOpen
  \/ BackendClose

Spec == Init /\ [][Next]_vars

\* run is sequential code on one thread: each of its statements is executed
\* and each blocking call to a collaborator returns or raises.
FairSpec == Spec /\ WF_vars(RunStep)

\* ------------------------------------------------- the validator by itself
\* extract_first_json and the validation of get_strategy are functions of
\* their input alone.  ValidatorSpec applies each of them once to every
\* input of a bounded set: a response text in raw, or a decoded object in
\* data; the result is left in jtext or plan.
MaxProbeLen == 6     \* length of a response text given to extract_first_json

ProbeTexts == UNION { [1..n -> Alphabet] : n \in 0..MaxProbeLen }

\* Decoded objects: every key absent, well typed (the empty string and null
\* included where the type allows a test of them) or a list.
ProbeObjects ==
  [ module : { ABSENT, "m", "", "null", BAD },
    payload : { ABSENT, "p", "", BAD },
    options : { ABSENT, "{}", BAD },
    vector : { ABSENT, "system", "web", "ftp", "", BAD },
    rationale : { ABSENT, "unsafe target", "null", BAD },
    manual_review : { ABSENT, "true", "false", "null", BAD },
    confidence : { ABSENT, "0.5", BAD },
    extra : BOOLEAN ]

\* The variables of run, which the validator does not touch.
run_vars ==
  << msf, prepared, call, require_manual_approval, dry_run, shutdown, registry, llm_ok, pre_sessions, console, current,
     s_id, s_type, elapsed, result, returns, escaped, exc, upgraded, calls,
     execs, ticks, flagAge >>

InitValidator ==
  /\ \/ /\ pc = "extract"
        /\ raw \in [ ok : { TRUE }, text : ProbeTexts ]
        /\ data = NoData
        /\ require_manual_approval = FALSE
     \/ /\ pc = "validate"
        /\ raw = NoText
        /\ data \in [ ok : { TRUE }, data : ProbeObjects ]
        /\ require_manual_approval \in BOOLEAN
  /\ call = NoCall
  /\ prepared = NotPrepared
  /\ msf = NewClient
  /\ jtext = NoText
  /\ plan = NoPlan
  /\ dry_run = FALSE
  /\ shutdown = FALSE
  /\ registry = [ s \in SessIds |-> NoSession ]
  /\ llm_ok = "True"
  /\ pre_sessions = { }
  /\ console = "None"
  /\ current = { }
  /\ s_id = NoId
  /\ s_type = "None"
  /\ elapsed = 0
  /\ result = NoResult
  /\ returns = 0
  /\ escaped = FALSE
  /\ exc = "None"
  /\ upgraded = "None"
  /\ calls = [ c \in { "scan", "predict", "registry", "upgrade", "console",
                       "classify" } |-> 0 ]
  /\ execs = << >>
  /\ ticks = 0
  /\ flagAge = -1

\* jtext = extract_first_json(raw)
ExtractCandidate ==
  /\ pc = "extract"
  /\ LET j == extract_first_json(raw.text)
     IN  jtext' = [ ok |-> j.found, text |-> j.text ]
  /\ pc' = "extracted"
  /\ UNCHANGED << raw, data, plan >>
  /\ UNCHANGED run_vars

\* get_strategy from data = json.loads(jtext) on
ValidateObject ==
  /\ pc = "validate"
  /\ plan' = Validate(data.data, require_manual_approval)
  /\ pc' = "validated"
  /\ UNCHANGED << raw, jtext, data >>
  /\ UNCHANGED run_vars

NextValidator ==
  \/ ExtractCandidate
  \/ ValidateObject

ValidatorSpec == InitValidator /\ [][NextValidator]_vars

\* --------------------------------------------------- the clients by themselves
\* LLMAdapter.predict is called once, and connect, connect_or_raise and
\* disconnect are called one after the other on one MSFClient, for every
\* pattern of failing and succeeding backend calls.
MaxConnectRetries == 2   \* the largest connect_retries an MSFClient is given
MaxCalls == 3            \* the calls made on one MSFClient

ConnectRetries == (0 - 1)..MaxConnectRetries

Pending == [ done |-> FALSE ]

\* client.logout and client.close: not there, returning, or raising.
Hooks == { "absent", "ok", "raises" }

\* The n-th call on an MSFClient built with one of the given
\* connect_retries.  at_probe: a failing attempt fails in the health probe,
\* after MsfRpcClient(...) was assigned, and not in MsfRpcClient(...).
ClientCalls(n, retries) ==
  [ fn : { "connect", "connect_or_raise" },
    connect_retries : retries,
    outcomes : [ 1..(MaxConnectRetries + 1) -> BOOLEAN ],
    at_probe : BOOLEAN, n : { n }, ret : { Pending } ]
  \cup
  [ fn : { "disconnect" }, connect_retries : retries,
    logout : Hooks, close : Hooks, n : { n }, ret : { Pending } ]

InitClients ==
  /\ pc = "call"
  /\ call \in
       [ fn : { "predict" }, client : BOOLEAN,
         outcomes : [ 1..(Retries + 1) -> BOOLEAN ], ret : { Pending } ]
       \cup ClientCalls(1, ConnectRetries)
  /\ require_manual_approval = FALSE
  /\ prepared = NotPrepared
  /\ msf = NewClient
  /\ raw = NoText
  /\ jtext = NoText
  /\ data = NoData
  /\ plan = NoPlan
  /\ dry_run = FALSE
  /\ shutdown = FALSE
  /\ registry = [ s \in SessIds |-> NoSession ]
  /\ llm_ok = "None"
  /\ pre_sessions = { }
  /\ console = "None"
  /\ current = { }
  /\ s_id = NoId
  /\ s_type = "None"
  /\ elapsed = 0
  /\ result = NoResult
  /\ returns = 0
  /\ escaped = FALSE
  /\ exc = "None"
  /\ upgraded = "None"
  /\ calls = [ c \in { "scan", "predict", "registry", "upgrade", "console",
                       "classify" } |-> 0 ]
  /\ execs = << >>
  /\ ticks = 0
  /\ flagAge = -1

\* Everything but pc and call.
other_vars ==
  << prepared, require_manual_approval, raw, jtext, data, plan, dry_run, shutdown,
     registry, llm_ok, pre_sessions, console, current, s_id, s_type, elapsed,
     result, returns, escaped, exc, upgraded, calls, execs, ticks, flagAge >>

\* self.llm.predict(prompt)
CallPredict ==
  /\ pc = "call"
  /\ call.fn = "predict"
  /\ call' = [ call EXCEPT !.ret = predict(call.client, call.outcomes) ]
  /\ pc' = "returned"
  /\ UNCHANGED msf
  /\ UNCHANGED other_vars

\* msf.connect() or msf.connect_or_raise()
CallConnect ==
  /\ pc = "call"
  /\ call.fn \in { "connect", "connect_or_raise" }
  /\ call' = [ call EXCEPT !.ret =
                 IF call.fn = "connect"
                   THEN connect(call.connect_retries, call.outcomes)
                   ELSE connect_or_raise(call.connect_retries, call.outcomes) ]
  /\ msf' = connect_state(msf, call.at_probe,
                          connect_internal(call.connect_retries,
                                           call.outcomes))
  /\ pc' = "returned"
  /\ UNCHANGED other_vars

\* msf.disconnect()
CallDisconnect ==
  /\ pc = "call"
  /\ call.fn = "disconnect"
  /\ call' = [ call EXCEPT !.ret = disconnect(msf, call.logout, call.close) ]
  /\ msf' = disconnect_state(msf)
  /\ pc' = "returned"
  /\ UNCHANGED other_vars

\* The caller goes on to its next call on the same MSFClient.
NextCall ==
  /\ pc = "returned"
  /\ call.fn # "predict"
  /\ call.n < MaxCalls
  /\ call' \in ClientCalls(call.n + 1, { call.connect_retries })
  /\ pc' = "call"
  /\ UNCHANGED msf
  /\ UNCHANGED other_vars

NextClients ==
  \/ CallPredict
  \/ CallConnect
  \/ CallDisconnect
  \/ NextCall

ClientSpec == InitClients /\ [][NextClients]_vars

\* ------------------------------------------------------------------ claims
\* The steps of run itself (the environment's steps left out).
RunPcs ==
  { "recon", "check_recon", "predict", "extract", "decode", "branch",
    "check_dispatch", "snapshot_pre", "dispatch", "tick", "snapshot",
    "lookup", "console" }

\* C1: every call of run returns exactly one result mapping and no exception
\* escapes it, whatever the collaborators do: no result before the run has
\* ended, exactly one once it has, and its status is a result status.
C1_OneResultNoEscape ==
  /\ ~escaped
  /\ pc \in RunPcs \cup { "done" }
  /\ pc # "done" => returns = 0 /\ result = NoResult
  /\ pc = "done" => returns = 1 /\ result.status \in RunStatus

\* A run that a collaborator's plain error ended: the error was converted.
C1_Witness ==
  /\ pc = "done"
  /\ exc = "TypeError"
  /\ result.status = "failure"
  /\ returns = 1

\* C2: exploiter.execute is invoked only with a plan that passed strict
\* schema validation and whose manual_review is not set.  What run acts on
\* after the branch is the plan of a decoded object with every required
\* field present and typed, no unknown key and a vector of the enum, and
\* every invocation of execute carries exactly that plan.
Conformant(d) ==
  /\ d.ok
  /\ d.data.module \notin { ABSENT, BAD }
  /\ d.data.payload \notin { ABSENT, BAD }
  /\ d.data.vector \in { "system", "web" }
  /\ d.data.options \in { ABSENT, "{}" }
  /\ d.data.manual_review \in { ABSENT, "false" }
  /\ ~d.data.extra

C2_DispatchOnlyValidated ==
  /\ pc = "branch" /\ ~Truthy(plan.manual_review) => Conformant(data)
  /\ \A i \in DOMAIN execs :
       /\ execs[i].plan = plan
       /\ IsPlan(plan)
       /\ plan.module \notin { ABSENT, BAD }
       /\ plan.payload \notin { ABSENT, BAD }
       /\ plan.vector \in { "system", "web" }
       /\ plan.manual_review \in { "False", "None" }

\* A validated plan was dispatched.
C2_Witness ==
  /\ Len(execs) = 1
  /\ execs[1].plan.vector = "web"
  /\ execs[1].plan.module = "m"

\* C3: once the flag is set, the next cancellation check ends the run with
\* status interrupted (reason shutdown_requested): no state has a check
\* evaluated after the flag was set and the run still going or ended with
\* another status.
C3_InterruptedAtNextCheck ==
  flagAge >= 1 =>
    /\ flagAge = 1
    /\ pc = "done"
    /\ result.status = "interrupted"
    /\ result.reason = "shutdown_requested"

\* The flag was set during polling and the next tick's check ended the run.
C3_Witness ==
  /\ flagAge = 1
  /\ ticks >= 2
  /\ pc = "done"
  /\ result.status = "interrupted"

\* A cancellation check is about to be evaluated.
CheckPoint ==
  \/ pc \in { "check_recon", "check_dispatch" }
  \/ pc = "tick" /\ elapsed < PollTimeout

\* C4: a cancellation check that sees the flag set ends the run with
\* {interrupted, shutdown_requested, {}} and makes no external call: the
\* step out of such a check changes no call count and invokes no execute.
\* A run interrupted before its first tick ended has read the registry once
\* (the snapshot before dispatch) if it dispatched at all.
C4_InterruptMakesNoCall ==
  /\ [](result.status = "interrupted" =>
          result = [ status |-> "interrupted",
                     reason |-> "shutdown_requested",
                     details |-> EmptyDict ])
  /\ [](pc = "done" /\ result.status = "interrupted" /\ ticks = 0 =>
          calls.registry = (IF execs = << >> THEN 0 ELSE 1))
  /\ [][ CheckPoint /\ shutdown /\ pc' # pc =>
           /\ pc' = "done"
           /\ result'.status = "interrupted"
           /\ calls' = calls
           /\ execs' = execs ]_vars

\* The flag was set between dispatch and the first tick.
C4_Witness ==
  /\ pc = "done"
  /\ result.status = "interrupted"
  /\ Len(execs) = 1
  /\ ticks = 0
  /\ calls.registry = 1
  /\ calls.console = 0

\* C5: a manual-review outcome of the validator ends the run with
\* {partial, manual_review_required, {rationale}}: no registry read, no
\* dispatch, no tick.
C5_ManualReviewTerminal ==
  DOMAIN plan # { } /\ Truthy(plan.manual_review) =>
    /\ pc \in { "branch", "done" }
    /\ calls.registry = 0
    /\ calls.console = 0
    /\ calls.upgrade = 0
    /\ execs = << >>
    /\ ticks = 0
    /\ pc = "done" =>
         result = [ status |-> "partial",
                    reason |-> "manual_review_required",
                    details |-> [ rationale |-> plan.rationale ] ]

\* The advisor asked for manual review and gave its rationale.
C5_Witness ==
  /\ pc = "done"
  /\ llm_ok = "True"
  /\ result.status = "partial"
  /\ result.details.rationale = "unsafe target"

C7_NewAgainstDispatchSnapshot ==
  /\ [](pc = "lookup" => s_id \in current /\ s_id \notin pre_sessions)
  /\ [](pc = "done" /\ result.status = "success" =>
          /\ result.details.session_id \in current
          /\ result.details.session_id \notin pre_sessions)
  /\ [][ pre_sessions' # pre_sessions =>
           pc = "snapshot_pre" /\ pre_sessions' = Keys(registry) ]_vars

\* A success in a later tick, with a session of the dispatch-time snapshot
\* closed meanwhile and another one still open.
C7_Witness ==
  /\ pc = "done"
  /\ result.status = "success"
  /\ ticks >= 1
  /\ \E s \in pre_sessions : registry[s] = NoSession
  /\ \E s \in pre_sessions : s \in current

\* C8 as stated: a session the backend removes between the tick's snapshot
\* and the lookup of its attributes produces no error and no failure result.
C8_StaleReadInvisible ==
  pc = "done" /\ s_id \in current /\ registry[s_id] = NoSession
    /\ exc \in { "None", "KeyError" } =>
      result.status # "failure"

\* C9: an upgrade that raises yields success/session_opened_upgrade_failed
\* with the session id and the upgrade error; an attempted upgrade never
\* ends in status failure; the upgrade is attempted at most once, and only
\* for a session of type shell.
C9_UpgradeFailureKeepsSuccess ==
  /\ calls.upgrade <= 1
  /\ calls.upgrade = 1 <=> upgraded # "None"
  /\ calls.upgrade = 1 =>
       /\ s_type = "shell"
       /\ pc = "done"
       /\ result.status = "success"
       /\ result.details.session_id = s_id
  /\ upgraded = "raised" =>
       /\ result.reason = "session_opened_upgrade_failed"
       /\ DOMAIN result.details = { "session_id", "upgrade_error" }
       /\ result.details.upgrade_error \in { Str(e) : e \in BackendErrors }

\* The upgrade of a new shell session raised.
C9_Witness ==
  /\ pc = "done"
  /\ upgraded = "raised"
  /\ s_type = "shell"
  /\ result.status = "success"

\* C10: a new shell session whose upgrade succeeds yields
\* {success, session_opened_and_upgraded, {session_id, type: upgraded_shell}};
\* a new session of another type yields {success, session_opened} with its
\* id and type, and no upgrade is attempted.
C10_SuccessResults ==
  /\ upgraded = "ok" =>
       /\ s_type = "shell"
       /\ result = [ status |-> "success",
                     reason |-> "session_opened_and_upgraded",
                     details |-> [ session_id |-> s_id,
                                   type |-> "upgraded_shell" ] ]
  /\ s_type \notin { "None", "shell" } =>
       /\ pc = "done"
       /\ calls.upgrade = 0
       /\ result = [ status |-> "success", reason |-> "session_opened",
                     details |-> [ session_id |-> s_id, type |-> s_type ] ]

\* The first tick found a new shell session and the upgrade succeeded.
C10_Witness ==
  /\ pc = "done"
  /\ pre_sessions = { }
  /\ ticks = 0
  /\ result.reason = "session_opened_and_upgraded"
  /\ result.details.type = "upgraded_shell"

\* C11: after dispatch, when no new session appears, no terminal marker is
\* read, the flag is not seen and every registry read succeeds, the loop
\* ends after at most ceil(poll_timeout / tick delay) ticks with
\* {failure, timeout_no_session, {}}.  Every tick that ends in the sleep
\* moves the clock by at least the tick delay (up to the deadline), the
\* timeout result is returned only with the deadline passed, and every run
\* terminates.
C11_PollingBounded ==
  /\ [](ticks <= MaxTicks)
  /\ [](pc = "done" /\ result.reason = "timeout_no_session" =>
          /\ result = [ status |-> "failure", reason |-> "timeout_no_session",
                        details |-> EmptyDict ]
          /\ elapsed >= PollTimeout
          /\ ticks >= 1)
  /\ [](pc = "done" /\ execs # << >> /\ exc = "None" /\ s_id = NoId
          /\ result.status # "interrupted"
          /\ result.reason # "exploit_failed" =>
            result.reason = "timeout_no_session")
  /\ [][ ticks' # ticks =>
           /\ ticks' = ticks + 1
           /\ elapsed' >= Min(elapsed + TickDelay, PollTimeout) ]_vars
  /\ <>(pc = "done")

\* Twelve ticks of five seconds each found nothing and the run timed out.
C11_Witness ==
  /\ pc = "done"
  /\ ticks = MaxTicks
  /\ s_id = NoId
  /\ ~shutdown
  /\ result.reason = "timeout_no_session"

\* C12: a failed read of the session registry ends the run and is not
\* retried.  When the read before dispatch fails, execute is never invoked
\* and the result is failure with reason MSF_RPC_SYNC_ISSUE; when a tick's
\* snapshot read fails, the same step ends the run with that result: no
\* console read, no upgrade, no further tick, and the registry was read
\* once before dispatch and once per tick.
C12_RegistryReadFailureFatal ==
  /\ [][ pc = "snapshot_pre" /\ pc' = "done" =>
           /\ result'.status = "failure"
           /\ result'.reason = "MSF_RPC_SYNC_ISSUE"
           /\ result'.details.message = "Failed to read MSF sessions"
           /\ execs' = << >>
           /\ ticks' = 0
           /\ calls'.registry = 1 ]_vars
  /\ [][ pc = "snapshot" /\ pc' = "done" =>
           /\ result'.status = "failure"
           /\ result'.reason = "MSF_RPC_SYNC_ISSUE"
           /\ result'.details.message =
                "MSF session read failed during polling"
           /\ calls'.registry = calls.registry + 1
           /\ calls'.console = calls.console
           /\ calls'.upgrade = 0
           /\ ticks' = ticks ]_vars
  /\ [](exc = "MSFRPCException" =>
          /\ pc = "done"
          /\ returns = 1
          /\ result.status = "failure"
          /\ calls.registry = (IF execs = << >> THEN 1 ELSE ticks + 2))

\* The snapshot read of the third tick failed.
C12_Witness ==
  /\ pc = "done"
  /\ exc = "MSFRPCException"
  /\ ticks = 2
  /\ result.reason = "MSF_RPC_SYNC_ISSUE"
  /\ result.details.message = "MSF session read failed during polling"

\* C13: when the dispatch call fails, the same step ends the run with
\* status failure and reason PAYLOAD_OR_ARCH_MISMATCH; the details are the
\* error's to_dict, which holds the dispatched plan under details.plan and
\* the class of the underlying error with its traceback; no tick is
\* performed and the registry is not read again.
C13_DispatchFailure ==
  /\ [][ pc = "dispatch" /\ pc' = "done" =>
           /\ result'.status = "failure"
           /\ result'.reason = "PAYLOAD_OR_ARCH_MISMATCH"
           /\ result'.details.message = "Exploit execution failed"
           /\ result'.details.reason = "PAYLOAD_OR_ARCH_MISMATCH"
           /\ result'.details.details = [ plan |-> plan ]
           /\ result'.details.original_type \in
                { e.cls : e \in CollabErrors }
           /\ result'.details.traceback = "captured"
           /\ execs' # << >>
           /\ \A i \in DOMAIN execs' : execs'[i].plan = plan
           /\ calls' = calls ]_vars
  /\ [](exc = "ExploitExecutionException" =>
          /\ pc = "done"
          /\ IsPlan(plan)
          /\ ticks = 0
          /\ calls.registry = 1
          /\ calls.console = 0
          /\ calls.upgrade = 0)

\* The first call raised TypeError, the call without dry_run raised too.
C13_Witness ==
  /\ pc = "done"
  /\ exc = "ExploitExecutionException"
  /\ Len(execs) = 2
  /\ result.details.original_type = "Exception"
  /\ result.details.details.plan.module = "m"

\* C14: an error raised inside run ends it with status failure.  For a
\* structured error the reason is the error's own reason code and the
\* details are its to_dict; for any other error the reason is
\* UNDEFINED_INTERNAL_ERROR and the details hold the error text.  Either
\* way the reason is a member of FailureReason.
C14_OuterHandlerReasons ==
  exc # "None" =>
    /\ pc = "done"
    /\ result.status = "failure"
    /\ result.reason \in FailureReason
    /\ exc \in { "SpectraException", "MSFRPCException",
                  "ExploitExecutionException" } =>
         /\ DOMAIN result.details =
              { "message", "reason", "details", "original_type", "traceback" }
         /\ result.reason = result.details.reason
    /\ exc = "MSFRPCException" => result.reason = "MSF_RPC_SYNC_ISSUE"
    /\ exc = "ExploitExecutionException" =>
         result.reason = "PAYLOAD_OR_ARCH_MISMATCH"
    /\ exc \in { "Exception", "TypeError", "KeyError", "RecursionError",
                  "ValueError" } =>
         /\ result.reason = "UNDEFINED_INTERNAL_ERROR"
         /\ DOMAIN result.details = { "error" }
    /\ exc \in { "SpectraException", "MSFRPCException",
                  "ExploitExecutionException", "Exception", "TypeError",
                  "KeyError", "RecursionError", "ValueError" }

\* A collaborator raised a structured error with a reason of its own.
C14_Witness ==
  /\ pc = "done"
  /\ exc = "SpectraException"
  /\ result.reason = "CONNECTION_REFUSED_OR_IPS_BLOCK"
  /\ result.details.reason = "CONNECTION_REFUSED_OR_IPS_BLOCK"

C16_LogReadErrorSwallowed ==
  /\ [][ pc = "console" /\ pc' # pc =>
           /\ exc' = "None"
           /\ ~escaped'
           /\ \/ /\ pc' = "tick"
                 /\ ticks' = ticks + 1
                 /\ result' = NoResult
                 /\ returns' = 0
              \/ /\ pc' = "done"
                 /\ console # "None"
                 /\ result'.reason = "exploit_failed"
           /\ console = "None" => pc' = "tick" /\ calls' = calls ]_vars
  /\ [](console = "None" => calls.console = 0 /\ calls.classify = 0)
  /\ [](pc = "done" /\ (ticks > 0 \/ calls.console > 0) =>
          \/ result.status = "success"
          \/ result.reason = "exploit_failed"
          \/ result = Interrupted
          \/ result.reason = "timeout_no_session"
          \/ exc \in { "MSFRPCException", "KeyError", "Exception" }
               /\ calls.registry > ticks + 1)

\* Without a console handle the run polled on and found a session in the
\* third tick.
C16_Witness ==
  /\ pc = "done"
  /\ console = "None"
  /\ execs # << >>
  /\ ticks = 2
  /\ result.status = "success"

\* C17: what run returns is a mapping with exactly the keys status, reason
\* and details, its status is one of success, failure, partial,
\* interrupted, unknown, and its reason is one of the codes that go with
\* that status.
C17_ResultShape ==
  pc = "done" =>
    /\ DOMAIN result = { "status", "reason", "details" }
    /\ result.status \in RunStatus
    /\ result.status = "success" =>
         result.reason \in { "session_opened", "session_opened_and_upgraded",
                             "session_opened_upgrade_failed" }
    /\ result.status = "failure" =>
         result.reason \in { "no_plan", "timeout_no_session", "exploit_failed" }
                             \cup FailureReason
    /\ result.status = "partial" => result.reason = "manual_review_required"
    /\ result.status = "interrupted" => result.reason = "shutdown_requested"
    /\ result.status # "unknown"
    /\ DOMAIN result.details \subseteq
         { "rationale", "session_id", "type", "upgrade_error",
           "classification", "log", "error", "message", "reason", "details",
           "original_type", "traceback" }

\* A run that ended with the partial status.
C17_Witness ==
  /\ pc = "done"
  /\ DOMAIN result = { "status", "reason", "details" }
  /\ result.status = "partial"
  /\ DOMAIN result.details = { "rationale" }

\* The lexical class of each character of a JSON text read from its first
\* character: "str" inside a string literal (its quotes included, a
\* backslash escaping the character after it), the character itself
\* outside.
RECURSIVE Lex(_, _, _, _)
Lex(t, i, in_string, escape) ==
  IF i > Len(t) THEN << >>
  ELSE IF in_string
    THEN << "str" >>
         \o Lex(t, i + 1, escape \/ t[i] # "q", ~escape /\ t[i] = "b")
    ELSE IF t[i] = "q"
           THEN << "str" >> \o Lex(t, i + 1, TRUE, FALSE)
           ELSE << t[i] >> \o Lex(t, i + 1, FALSE, FALSE)

\* Braces opened and not yet closed after the first n characters.
Depth(cls, n) ==
  Cardinality({ k \in 1..n : cls[k] = "{" })
  - Cardinality({ k \in 1..n : cls[k] = "}" })

\* A balanced JSON object: it opens with a brace, its last character is
\* the brace that closes the first one, every string literal in it is
\* closed and no backslash stands outside a string.
IsObject(t) ==
  LET cls == Lex(t, 1, FALSE, FALSE)
      n == Len(t)
  IN  /\ n >= 2
      /\ cls[1] = "{"
      /\ cls[n] = "}"
      /\ Depth(cls, n) = 0
      /\ \A k \in 1..(n - 1) : Depth(cls, k) > 0
      /\ \A k \in 1..n : cls[k] # "b"

\* text[i..j] is the one balanced object of the text: no part of the text
\* before or after it is a balanced object.
TheObject(text, i, j) ==
  /\ IsObject(SubSeq(text, i, j))
  /\ \A a \in 1..Len(text), b \in 1..Len(text) :
       a < b /\ (b < i \/ a > j) => ~IsObject(SubSeq(text, a, b))

\* C18 as stated: for a text made of prose around one balanced JSON object,
\* extract_first_json returns exactly that object.
C18_ExtractsEmbeddedObject ==
  pc = "extracted" =>
    \A i \in 1..Len(raw.text), j \in 1..Len(raw.text) :
      TheObject(raw.text, i, j) =>
        jtext = [ ok |-> TRUE, text |-> SubSeq(raw.text, i, j) ]

\* C19: for a decoded object whose manual_review value is truthy,
\* get_strategy returns {manual_review: True, rationale} with the rationale
\* of the object, or "LLM signaled manual review" when it has none,
\* whatever the other keys hold: the schema is not applied, so no
\* validation rationale is returned.
C19_ManualReviewPassThrough ==
  pc = "validated" /\ Truthy(data.data.manual_review) =>
    /\ DOMAIN plan = { "manual_review", "rationale" }
    /\ plan.manual_review = "True"
    /\ data.data.rationale = ABSENT =>
         plan.rationale = "LLM signaled manual review"
    /\ data.data.rationale # ABSENT =>
         plan.rationale = PyVal(data.data.rationale)

\* manual_review is a non-empty list, the required fields are missing,
\* there is an unknown key and the vector is outside the enum.
C19_Witness ==
  /\ pc = "validated"
  /\ data.data.manual_review = BAD
  /\ data.data.module = ABSENT
  /\ data.data.vector = "ftp"
  /\ data.data.extra
  /\ data.data.rationale = "unsafe target"
  /\ plan.rationale = "unsafe target"

\* C20: for a decoded object with a key outside the schema, get_strategy
\* returns no plan but a manual-review outcome {manual_review: True,
\* rationale}, for either value of require_manual_approval.
C20_UnknownKeyNeverPlan ==
  pc = "validated" /\ data.data.extra =>
    /\ ~IsPlan(plan)
    /\ DOMAIN plan = { "manual_review", "rationale" }
    /\ plan.manual_review = "True"
    /\ ~Truthy(data.data.manual_review) => plan.rationale = "ValidationError"

\* An object that would be a plan but for its unknown key.
C20_Witness ==
  /\ pc = "validated"
  /\ data.data.extra
  /\ data.data.module = "m"
  /\ data.data.payload = "p"
  /\ data.data.options = "{}"
  /\ data.data.vector = "system"
  /\ data.data.manual_review = "false"
  /\ plan.rationale = "ValidationError"

\* C21: for a decoded object whose vector is not "system" or "web" (absent
\* and wrongly typed included), get_strategy returns a manual-review
\* outcome and no plan, also with every other field valid, where the
\* rationale names the vector; every plan it returns has its vector among
\* the two.
C21_VectorEnum ==
  pc = "validated" =>
    /\ data.data.vector \notin { "system", "web" } =>
         /\ ~IsPlan(plan)
         /\ DOMAIN plan = { "manual_review", "rationale" }
         /\ plan.manual_review = "True"
    /\ data.data.vector \in { "ftp", "" }
         /\ ~Truthy(data.data.manual_review)
         /\ SchemaErrors(data.data) = { } =>
           plan.rationale = InvalidVectorText(data.data.vector)
    /\ IsPlan(plan) =>
         /\ plan.vector \in { "system", "web" }
         /\ plan.vector = data.data.vector

\* Every field is valid but the vector.
C21_Witness ==
  /\ pc = "validated"
  /\ data.data.vector = "ftp"
  /\ data.data.module = "m"
  /\ data.data.payload = "p"
  /\ data.data.options = "{}"
  /\ data.data.manual_review = ABSENT
  /\ ~data.data.extra
  /\ plan = ManualReview("Invalid vector: ftp")

\* C22 as stated: get_strategy never raises, whatever the advisor answers:
\* once the advisor was asked and get_strategy is past its decoding, run
\* holds what get_strategy returned, a plan or a manual-review outcome.
C22_GetStrategyNeverRaises ==
  llm_ok # "None" /\ pc \notin { "extract", "decode" } =>
    /\ DOMAIN plan # { }
    /\ exc \notin { e.cls : e \in DecodeErrors }

\* C23 as stated: every plan get_strategy returns has a non-empty module
\* and a non-empty payload; an object with an empty module or an empty
\* payload yields a manual-review outcome, never a plan.
C23_PlanFieldsNonEmpty ==
  pc = "validated" =>
    /\ IsPlan(plan) => plan.module # "" /\ plan.payload # ""
    /\ data.data.module = "" \/ data.data.payload = "" => ~IsPlan(plan)

\* C24: called with require_manual_approval set, get_strategy returns
\* nothing whose manual_review is not True: a plan that passed validation
\* is returned with manual_review = True and its other fields as
\* validated.
C24_ApprovalForcesManualReview ==
  pc = "validated" /\ require_manual_approval =>
    /\ plan.manual_review = "True"
    /\ IsPlan(plan) =>
         /\ ~Truthy(data.data.manual_review)
         /\ plan = [ StrategyDict(data.data) EXCEPT !.manual_review = "True" ]

\* A valid object that says manual_review false, validated in that mode.
C24_Witness ==
  /\ pc = "validated"
  /\ require_manual_approval
  /\ data.data.manual_review = "false"
  /\ IsPlan(plan)
  /\ plan.module = "m"
  /\ plan.manual_review = "True"

\* 1 + 2 + ... + n
Tri(n) == IF n <= 0 THEN 0 ELSE (n * (n + 1)) \div 2

\* The first call that succeeds among the first n, 0 when none does.
FirstSuccess(outcomes, n) ==
  IF \E k \in 1..n : outcomes[k]
    THEN CHOOSE k \in 1..n : outcomes[k] /\ \A j \in 1..(k - 1) : ~outcomes[j]
    ELSE 0

\* C25 as stated: predict returns the text of the first backend call that
\* succeeds, after sleeping attempt x base delay between the attempts made;
\* it fails only after retries + 1 failed calls, with a structured error
\* of reason LLM_FAILURE, having slept between the attempts only.
C25_PredictContract ==
  pc = "returned" /\ call.fn = "predict" =>
    LET first == FirstSuccess(call.outcomes, Retries + 1)
    IN  /\ call.ret.calls <= Retries + 1
        /\ call.ret.ok =>
             /\ call.ret.calls = first
             /\ call.ret.slept = Tri(first - 1)
        /\ ~call.ret.ok =>
             /\ call.ret.calls = Retries + 1
             /\ call.ret.slept = Tri(Retries)
             /\ call.ret.error = "LLMException"

\* C26 as stated: in a run created with dry_run set, every invocation of
\* exploiter.execute carries dry_run = True.
C26_DryRunNeverReal ==
  dry_run => \A i \in DOMAIN execs : execs[i].dry_run = "True"

\* C27: connect never raises; it returns True at the first connection
\* attempt that succeeds and False when all fail; at most
\* connect_retries + 1 attempts are made and the backoff, attempt x
\* connect_backoff, is slept only between two attempts; connect_or_raise
\* raises an MSFRPCException exactly when connect returns False.
C27_ConnectContract ==
  pc = "returned" /\ call.fn \in { "connect", "connect_or_raise" } =>
    LET most  == IF call.connect_retries + 1 > 0
                   THEN call.connect_retries + 1 ELSE 0
        first == FirstSuccess(call.outcomes, most)
        made  == IF first # 0 THEN first ELSE most
    IN  /\ call.ret.attempts = made
        /\ call.ret.attempts <= most
        /\ call.ret.slept = Tri(made - 1)
        /\ call.fn = "connect" =>
             /\ call.ret.raised = "None"
             /\ call.ret.value = (IF first # 0 THEN "True" ELSE "False")
        /\ call.fn = "connect_or_raise" =>
             /\ call.ret.raised =
                  (IF first # 0 THEN "None" ELSE "MSFRPCException")

\* connect with the default of one retry returned False after two failed
\* attempts and one backoff sleep.
C27_Witness ==
  /\ pc = "returned"
  /\ call.fn = "connect"
  /\ call.connect_retries = 1
  /\ ~call.outcomes[1]
  /\ ~call.outcomes[2]
  /\ call.ret.value = "False"
  /\ call.ret.raised = "None"
  /\ call.ret.attempts = 2
  /\ call.ret.slept = 1

\* C28: extract_first_json returns nothing exactly when the text has no
\* opening brace or, reading the text from its first opening brace, no
\* closing brace outside a string literal brings the depth back to zero;
\* otherwise it returns the text from the first opening brace to the
\* first such closing brace.
C28_ExtractSpan ==
  pc = "extracted" =>
    LET text   == raw.text
        opens  == { k \in 1..Len(text) : text[k] = "{" }
    IN  IF opens = { }
          THEN ~jtext.ok
          ELSE
            LET s      == CHOOSE k \in opens : \A j \in opens : k <= j
                tail   == SubSeq(text, s, Len(text))
                cls    == Lex(tail, 1, FALSE, FALSE)
                closes == { k \in 1..Len(tail) :
                              cls[k] = "}" /\ Depth(cls, k) = 0 }
            IN  IF closes = { }
                  THEN ~jtext.ok
                  ELSE
                    LET e == CHOOSE k \in closes : \A j \in closes : k <= j
                    IN  jtext = [ ok |-> TRUE, text |-> SubSeq(tail, 1, e) ]

\* A closing brace inside a string literal did not end the object:
\* x{"}"} gives {"}"}.
C28_Witness ==
  /\ pc = "extracted"
  /\ raw.text = << "x", "{", "q", "}", "q", "}" >>
  /\ jtext = [ ok |-> TRUE, text |-> << "{", "q", "}", "q", "}" >> ]

\* The pairs of status and reason that run may return.
StatusReasonPairs ==
  ({ "success" } \X { "session_opened", "session_opened_and_upgraded",
                      "session_opened_upgrade_failed" })
  \cup ({ "partial" } \X { "manual_review_required" })
  \cup ({ "interrupted" } \X { "shutdown_requested" })
  \cup ({ "failure" } \X ({ "no_plan", "exploit_failed",
                            "timeout_no_session" } \cup FailureReason))

\* C29: the status and the reason of every result of run are one of the
\* pairs above; a success names the session it opened in details, an
\* interrupted result has empty details, and unknown is never returned.
C29_StatusReasonPairing ==
  pc = "done" =>
    /\ << result.status, result.reason >> \in StatusReasonPairs
    /\ result.status = "success" =>
         /\ "session_id" \in DOMAIN result.details
         /\ result.details.session_id = s_id
         /\ s_id \in current \ pre_sessions
    /\ result.status = "interrupted" => DOMAIN result.details = { }
    /\ result.status # "unknown"

\* A success whose upgrade failed: the session is named in details next to
\* the upgrade error.
C29_Witness ==
  /\ pc = "done"
  /\ result.status = "success"
  /\ result.reason = "session_opened_upgrade_failed"
  /\ DOMAIN result.details = { "session_id", "upgrade_error" }
  /\ result.details.session_id = s_id

\* C30 as stated: exploiter.execute is invoked at most once per run,
\* whatever it returns or raises.
C30_DispatchAtMostOnce ==
  Len(execs) <= 1

\* The places of run behind line 89.
AfterConfirmation ==
  { "check_dispatch", "snapshot_pre", "dispatch", "tick", "snapshot",
    "lookup", "console" }

C32_ConnectedOnlyAfterSuccess ==
  pc = "returned" /\ call.fn \in { "connect", "connect_or_raise",
                                   "disconnect" } =>
    /\ is_connected(msf) =>
         /\ call.fn # "disconnect"
         /\ call.fn = "connect" => call.ret.value = "True"
         /\ call.fn = "connect_or_raise" => call.ret.raised = "None"
    /\ call.fn = "disconnect" => msf.client = "None" /\ ~is_connected(msf)

====
